---- MODULE Spec2Model ----
(***************************************************************************)
(* Juice & Smoothie sales dashboard (ChukwuebukaOkonkwo_PythonAss5.py).    *)
(*                                                                         *)
(* One run of the script on an uploaded table: the four columns are        *)
(* detected, then the three tabs are rendered top to bottom.  The pandas   *)
(* operations the script calls are modelled by what they compute on a      *)
(* table of cells; sales amounts are integers (cents), a timestamp is a    *)
(* pair <<day, time of day>>.                                              *)
(***************************************************************************)
EXTENDS Integers, Sequences, FiniteSets

(***************************************************************************)
(* Bounds of the model.                                                    *)
(***************************************************************************)
MaxCols == 3
MaxRows == 2
MaxCategoryRows == 3
MaxTimeRows == 3
MaxRatingRows == 5

(***************************************************************************)
(* Cells of the DataFrame.  One record shape for every kind of value:      *)
(*   num  a number (a)            nan  a missing value (NaN / None)        *)
(*   str  a text that is neither a number nor a date (s)                   *)
(*   ts   a value pandas reads as the timestamp <<a, b>> = <<day, time>>   *)
(***************************************************************************)
Num(n) == [k |-> "num", s |-> "", a |-> n, b |-> 0]
Text(t) == [k |-> "str", s |-> t, a |-> 0, b |-> 0]
DateTime(d, t) == [k |-> "ts", s |-> "", a |-> d, b |-> t]
NaN == [k |-> "nan", s |-> "", a |-> 0, b |-> 0]

IsNa(c) == c.k = "nan"
IsNumber(c) == c.k = "num"

\* The value of "is None" for a column that was not detected.
None == "<None>"

(***************************************************************************)
(* str.lower() on the column names and aliases the model uses.             *)
(***************************************************************************)
Lower(name) ==
    CASE name \in {"Category", "CATEGORY"} -> "category"
      [] name = "Product Category" -> "product category"
      [] name = "$ Sales" -> "$ sales"
      [] name = "Sales ($)" -> "sales ($)"
      [] name \in {"Sales", "SALES"} -> "sales"
      [] name = "Total Sales" -> "total sales"
      [] name = "Date Ordered" -> "date ordered"
      [] name \in {"Order Date", "ORDER DATE"} -> "order date"
      [] name = "Service Satisfaction Rating" -> "service satisfaction rating"
      [] name = "Satisfaction Rating" -> "satisfaction rating"
      [] name = "Categories" -> "categories"
      [] OTHER -> name

\* The candidate lists of the four detect_column calls.
CategoryCandidates == <<"Category", "Product Category">>
SalesCandidates == <<"$ Sales", "Sales ($)", "Sales", "Total Sales">>
DateCandidates == <<"Date Ordered", "Order Date">>
SatisfactionCandidates == <<"Service Satisfaction Rating", "Satisfaction Rating">>

(***************************************************************************)
(* detect_column: cols_lower maps each lower-cased column name to a column *)
(* (a later column of the same lower-cased name overwrites an earlier      *)
(* one), and the candidates are tried in order.                            *)
(***************************************************************************)
ColsLowerHas(columns, key) == \E i \in 1..Len(columns) : Lower(columns[i]) = key

ColsLowerGet(columns, key) ==
    LET last == CHOOSE i \in 1..Len(columns) :
                    /\ Lower(columns[i]) = key
                    /\ \A j \in 1..Len(columns) : Lower(columns[j]) = key => j <= i
    IN  columns[last]

RECURSIVE DetectFrom(_, _, _)
DetectFrom(columns, candidates, i) ==
    IF i > Len(candidates) THEN None
    ELSE IF ColsLowerHas(columns, Lower(candidates[i]))
         THEN ColsLowerGet(columns, Lower(candidates[i]))
         ELSE DetectFrom(columns, candidates, i + 1)

\* A detection that compares the names as written.
RECURSIVE DetectExactFrom(_, _, _)
DetectExactFrom(columns, candidates, i) ==
    IF i > Len(candidates) THEN None
    ELSE IF \E j \in 1..Len(columns) : columns[j] = candidates[i]
         THEN candidates[i]
         ELSE DetectExactFrom(columns, candidates, i + 1)

detect_column_exact(columns, candidates) == DetectExactFrom(columns, candidates, 1)

detect_column(columns, candidates) == DetectFrom(columns, candidates, 1)

(***************************************************************************)
(* The DataFrame: df.columns and the rows, each row one cell per column.   *)
(***************************************************************************)
ColIndex(frame, col) == CHOOSE i \in 1..Len(frame.columns) : frame.columns[i] = col

\* df[col]: the cells of one column, by row.
Column(frame, col) == [i \in 1..Len(frame.rows) |-> frame.rows[i][ColIndex(frame, col)]]

(***************************************************************************)
(* A Series is a sequence of <<index key, value>>, both cells.             *)
(***************************************************************************)
Perms(S) == {p \in [1..Cardinality(S) -> S] : \A i, j \in 1..Cardinality(S) : i # j => p[i] # p[j]}

RECURSIVE SumCells(_, _)
\* Series.sum() over the rows in idx: missing values are skipped.
SumCells(cells, idx) ==
    IF idx = {} THEN 0
    ELSE LET i == CHOOSE x \in idx : TRUE
         IN  (IF IsNumber(cells[i]) THEN cells[i].a ELSE 0) + SumCells(cells, idx \ {i})

\* The rows of a group hold a value that is neither a number nor missing.
HasText(cells, idx) == \E i \in idx : ~IsNumber(cells[i]) /\ ~IsNa(cells[i])

\* groupby(key)[value].sum(): rows with a missing key are left out.
GroupRows(keys) == {i \in DOMAIN keys : ~IsNa(keys[i])}
GroupKeys(keys) == {keys[i] : i \in GroupRows(keys)}
GroupBySum(keys, vals) ==
    {<<g, Num(SumCells(vals, {i \in GroupRows(keys) : keys[i] = g}))>> : g \in GroupKeys(keys)}

\* What the sum of an object column of texts holds: a text, not a number.
Concatenated == Text("<concatenated>")
GroupByConcat(keys) == {<<g, Concatenated>> : g \in GroupKeys(keys)}

\* sort_values(ascending=False): any order of the ties.
SortValuesDescending(S) ==
    {p \in Perms(S) : \A i, j \in 1..Cardinality(S) :
        (i < j /\ IsNumber(p[i][2]) /\ IsNumber(p[j][2])) => p[i][2].a >= p[j][2].a}

\* The order of index keys: numbers by value, timestamps by day then time.
CellLess(x, y) == x.a < y.a \/ (x.a = y.a /\ x.b < y.b)

\* sort_index(): the keys of a Series are distinct.
SortIndex(S) ==
    CHOOSE p \in Perms(S) : \A i, j \in 1..Cardinality(S) : i < j => CellLess(p[i][1], p[j][1])

\* Series.max(), Series.sum() and Series.idxmax() (the first of the largest).
SeriesMax(series) ==
    LET i == CHOOSE x \in 1..Len(series) : \A y \in 1..Len(series) : series[y][2].a <= series[x][2].a
    IN  series[i][2].a

RECURSIVE SeriesSumFrom(_, _)
SeriesSumFrom(series, i) ==
    IF i > Len(series) THEN 0 ELSE series[i][2].a + SeriesSumFrom(series, i + 1)

SeriesSum(series) == SeriesSumFrom(series, 1)

\* The last of the largest instead of the first.
IdxMaxLast(series) ==
    LET i == CHOOSE x \in 1..Len(series) :
                 /\ series[x][2].a = SeriesMax(series)
                 /\ \A y \in (x + 1)..Len(series) : series[y][2].a # SeriesMax(series)
    IN  series[i][1]

IdxMax(series) ==
    LET i == CHOOSE x \in 1..Len(series) :
                 /\ series[x][2].a = SeriesMax(series)
                 /\ \A y \in 1..(x - 1) : series[y][2].a # SeriesMax(series)
    IN  series[i][1]

(***************************************************************************)
(* State of one run of the script.                                         *)
(***************************************************************************)
VARIABLES
    pc,                 \* the part of the script that runs next
    df,                 \* the uploaded table
    category_col, sales_col, date_col, satisfaction_col,
    warnings,           \* the roles for which st.warning was shown
    tab1, tab2, tab3,   \* what each tab has shown
    category_sales, top_category, top_value, top_pct,
    daily_sales, max_date, max_value,
    rating_counts, most_common_rating

vars == <<pc, df, category_col, sales_col, date_col, satisfaction_col, warnings,
          tab1, tab2, tab3, category_sales, top_category, top_value, top_pct,
          daily_sales, max_date, max_value, rating_counts, most_common_rating>>

\* What a tab has shown: a chart (st.pyplot), the interpretation text
\* (st.markdown + st.write), and a notice: "info" (st.info), "error" (st.error).
View(chart, interpretation, notice) ==
    [chart |-> chart, interpretation |-> interpretation, notice |-> notice]
NotRendered == View(FALSE, FALSE, "none")

(***************************************************************************)
(* Tab 1: total sales by category.                                         *)
(***************************************************************************)
\* top_pct as the fraction <<numerator, denominator>> of a percentage.
TopPctNonZero(value, total) == IF total # 0 THEN <<value * 100, total>> ELSE <<0, 1>>

TopPct(value, total) == IF total > 0 THEN <<value * 100, total>> ELSE <<0, 1>>

Tab1Result(next, view, series) ==
    [pc |-> next, view |-> view, series |-> series,
     top_key |-> IF view.interpretation THEN IdxMax(series) ELSE NaN,
     top_value |-> IF view.interpretation THEN SeriesMax(series) ELSE 0,
     top_pct |-> IF view.interpretation
                 THEN TopPct(SeriesMax(series), SeriesSum(series)) ELSE <<0, 1>>]

Tab1Outcomes(frame, ccol, scol) ==
    IF ccol = None \/ scol = None
    THEN {Tab1Result("tab2", View(FALSE, FALSE, "error"), <<>>)}
    ELSE LET keys == Column(frame, ccol)
             vals == Column(frame, scol)
             completed == {Tab1Result("tab2", View(TRUE, TRUE, "none"), series) :
                              series \in SortValuesDescending(GroupBySum(keys, vals))}
         IN  IF GroupKeys(keys) = {}
             \* an empty Series: the (empty) chart is drawn, then st.info
             THEN {Tab1Result("tab2", View(TRUE, FALSE, "info"), <<>>)}
             ELSE IF HasText(vals, GroupRows(keys))
             \* a text among the summed values: TypeError in the sum or the
             \* sort, or a Series of texts is charted and idxmax / ">" raises
             THEN {Tab1Result("aborted", NotRendered, <<>>)}
                  \cup {Tab1Result("aborted", View(TRUE, FALSE, "none"), series) :
                           series \in Perms(GroupByConcat(keys))}
             ELSE IF HasText(vals, DOMAIN vals)
             \* an object column whose texts are all in dropped rows: the sums
             \* are numbers, and idxmax may refuse the object dtype
             THEN completed
                  \cup {Tab1Result("aborted", View(TRUE, FALSE, "none"), series) :
                           series \in SortValuesDescending(GroupBySum(keys, vals))}
             ELSE completed

Tab1 ==
    /\ pc = "tab1"
    /\ \E o \in Tab1Outcomes(df, category_col, sales_col) :
          /\ pc' = o.pc
          /\ tab1' = o.view
          /\ category_sales' = o.series
          /\ top_category' = o.top_key
          /\ top_value' = o.top_value
          /\ top_pct' = o.top_pct
    /\ UNCHANGED <<df, category_col, sales_col, date_col, satisfaction_col, warnings,
                   tab2, tab3, daily_sales, max_date, max_value,
                   rating_counts, most_common_rating>>

(***************************************************************************)
(* Tab 2: daily sales over time.                                           *)
(***************************************************************************)
\* pd.to_datetime(..., errors="coerce") on one cell: a timestamp, or NaT.  A
\* number is read as nanoseconds since the epoch (day 0, or the day before).
ToDatetime(c) ==
    CASE c.k = "ts" -> c
      [] c.k = "num" -> DateTime(IF c.a >= 0 THEN 0 ELSE -1, c.a)
      [] OTHER -> NaN

\* Timestamp.date()
Date(ts) == ts.a

Tab2Result(next, view, series) ==
    [pc |-> next, view |-> view, series |-> series,
     max_date |-> IF view.interpretation THEN IdxMax(series) ELSE NaN,
     max_value |-> IF view.interpretation THEN SeriesMax(series) ELSE 0]

Tab2Outcomes(frame, dcol, scol) ==
    IF dcol = None \/ scol = None
    THEN {Tab2Result("tab3", View(FALSE, FALSE, "error"), <<>>)}
    ELSE LET raw == Column(frame, dcol)
             keys == [i \in DOMAIN raw |-> ToDatetime(raw[i])]
             vals == Column(frame, scol)
             numeric == SortIndex(GroupBySum(keys, vals))
         IN  IF GroupKeys(keys) = {}
             THEN {Tab2Result("tab3", View(FALSE, FALSE, "info"), <<>>)}
             ELSE IF HasText(vals, GroupRows(keys))
             THEN {Tab2Result("aborted", NotRendered, <<>>),
                   Tab2Result("aborted", View(TRUE, FALSE, "none"),
                              SortIndex(GroupByConcat(keys)))}
             ELSE IF HasText(vals, DOMAIN vals)
             THEN {Tab2Result("tab3", View(TRUE, TRUE, "none"), numeric),
                   Tab2Result("aborted", View(TRUE, FALSE, "none"), numeric)}
             ELSE {Tab2Result("tab3", View(TRUE, TRUE, "none"), numeric)}

Tab2 ==
    /\ pc = "tab2"
    /\ \E o \in Tab2Outcomes(df, date_col, sales_col) :
          /\ pc' = o.pc
          /\ tab2' = o.view
          /\ daily_sales' = o.series
          /\ max_date' = o.max_date
          /\ max_value' = o.max_value
    /\ UNCHANGED <<df, category_col, sales_col, date_col, satisfaction_col, warnings,
                   tab1, tab3, category_sales, top_category, top_value, top_pct,
                   rating_counts, most_common_rating>>

(***************************************************************************)
(* Tab 3: distribution of the satisfaction ratings.                        *)
(***************************************************************************)
Range(f) == {f[i] : i \in DOMAIN f}

\* Series.dropna() keeps the rows that are not missing.
DropNa(cells) == SelectSeq(cells, LAMBDA c : ~IsNa(c))

CountOf(cells, v) == Cardinality({i \in DOMAIN cells : cells[i] = v})

\* value_counts(): each distinct value with its count, most frequent first.
ValueCounts(cells) ==
    SortValuesDescending({<<v, Num(CountOf(cells, v))>> : v \in Range(cells)})

\* The counts left in the order value_counts gave them.
RatingCountsUnsorted(counts) == counts

\* .sort_index() on the counts
RatingCountsOf(counts) == SortIndex(Range(counts))

Tab3Outcomes(frame, rcol) ==
    IF rcol = None
    THEN {[pc |-> "done", view |-> View(FALSE, FALSE, "error"),
           series |-> <<>>, mode |-> NaN]}
    ELSE LET ratings == DropNa(Column(frame, rcol))
         IN  IF Len(ratings) = 0
             THEN {[pc |-> "done", view |-> View(FALSE, FALSE, "info"),
                    series |-> <<>>, mode |-> NaN]}
             ELSE {[pc |-> "done", view |-> View(TRUE, TRUE, "none"),
                    series |-> RatingCountsOf(counts),
                    mode |-> IdxMax(RatingCountsOf(counts))] :
                       counts \in ValueCounts(ratings)}

Tab3 ==
    /\ pc = "tab3"
    /\ \E o \in Tab3Outcomes(df, satisfaction_col) :
          /\ pc' = o.pc
          /\ tab3' = o.view
          /\ rating_counts' = o.series
          /\ most_common_rating' = o.mode
    /\ UNCHANGED <<df, category_col, sales_col, date_col, satisfaction_col, warnings,
                   tab1, tab2, category_sales, top_category, top_value, top_pct,
                   daily_sales, max_date, max_value>>

(***************************************************************************)
(* Column detection, with one warning for each role that is not found.     *)
(***************************************************************************)
DetectColumns ==
    /\ pc = "detect"
    /\ category_col' = detect_column(df.columns, CategoryCandidates)
    /\ sales_col' = detect_column(df.columns, SalesCandidates)
    /\ date_col' = detect_column(df.columns, DateCandidates)
    /\ satisfaction_col' = detect_column(df.columns, SatisfactionCandidates)
    /\ warnings' = {r \in {"Category", "Sales", "Date Ordered", "Service Satisfaction Rating"} :
                      \/ r = "Category" /\ category_col' = None
                      \/ r = "Sales" /\ sales_col' = None
                      \/ r = "Date Ordered" /\ date_col' = None
                      \/ r = "Service Satisfaction Rating" /\ satisfaction_col' = None}
    /\ pc' = "tab1"
    /\ UNCHANGED <<df, tab1, tab2, tab3, category_sales, top_category, top_value, top_pct,
                   daily_sales, max_date, max_value, rating_counts, most_common_rating>>

Next == DetectColumns \/ Tab1 \/ Tab2 \/ Tab3

(***************************************************************************)
(* The uploaded tables.  A run starts after pd.read_csv / pd.read_excel    *)
(* has produced df; the tables differ by specification.                    *)
(***************************************************************************)
RECURSIVE RowsFor(_, _)
\* The rows over some columns, each cell drawn from its column's values.
RowsFor(columns, valuesOf) ==
    IF columns = <<>> THEN {<<>>}
    ELSE {<<c>> \o r : c \in valuesOf[Head(columns)], r \in RowsFor(Tail(columns), valuesOf)}

Tables(columns, valuesOf, maxRows) ==
    {[columns |-> columns, rows |-> rows] :
        rows \in UNION {[1..n -> RowsFor(columns, valuesOf)] : n \in 0..maxRows}}

Start(tables) ==
    /\ pc = "detect"
    /\ df \in tables
    /\ category_col = None /\ sales_col = None
    /\ date_col = None /\ satisfaction_col = None
    /\ warnings = {}
    /\ tab1 = NotRendered /\ tab2 = NotRendered /\ tab3 = NotRendered
    /\ category_sales = <<>> /\ top_category = NaN /\ top_value = 0 /\ top_pct = <<0, 1>>
    /\ daily_sales = <<>> /\ max_date = NaN /\ max_value = 0
    /\ rating_counts = <<>> /\ most_common_rating = NaN

\* The whole dashboard: every subset of the four columns, short tables.
DashboardColumns == <<"CATEGORY", "Sales", "Order Date", "Satisfaction Rating">>
DashboardValues ==
    [n \in Range(DashboardColumns) |->
        CASE n = "CATEGORY" -> {Text("Juice"), NaN}
          [] n = "Sales" -> {Num(1), NaN, Text("$5.00")}
          [] n = "Order Date" -> {DateTime(1, 0), Text("bad-date")}
          [] OTHER -> {Num(5), NaN}]
DashboardTables ==
    UNION {Tables(SelectSeq(DashboardColumns, LAMBDA n : n \in present),
                  DashboardValues, MaxRows) : present \in SUBSET Range(DashboardColumns)}

Init == Start(DashboardTables)
Spec == Init /\ [][Next]_vars

\* Column detection: the column names vary, the cells are all missing.
ResolveNames ==
    {"CATEGORY", "Category", "Product Category", "Categories",
     "Total Sales", "SALES", "ORDER DATE", "Satisfaction Rating"}
ResolveHeaders ==
    UNION {{h \in [1..n -> ResolveNames] : \A i, j \in 1..n : i # j => h[i] # h[j]} :
              n \in 0..MaxCols}
ResolveTables ==
    {[columns |-> h, rows |-> <<[i \in 1..Len(h) |-> NaN]>>] : h \in ResolveHeaders}

InitResolve == Start(ResolveTables)
SpecResolve == InitResolve /\ [][Next]_vars

\* Category sales: a category and a sales column.
CategoryColumns == <<"Category", "$ Sales">>
CategoryValues ==
    [n \in Range(CategoryColumns) |->
        IF n = "Category" THEN {Text("Juice"), Text("Smoothie"), NaN}
        ELSE {Num(-2), Num(1), Num(3), NaN, Text("$5.00")}]

InitCategory == Start(Tables(CategoryColumns, CategoryValues, MaxCategoryRows))
SpecCategory == InitCategory /\ [][Next]_vars

\* Sales over time: a date and a sales column.
TimeColumns == <<"Date Ordered", "Sales">>
TimeValues ==
    [n \in Range(TimeColumns) |->
        IF n = "Date Ordered"
        THEN {DateTime(1, 0), DateTime(1, 1), DateTime(2, 0), Text("bad-date"), NaN}
        ELSE {Num(5), Num(10), Num(15), Num(20)}]

InitTime == Start(Tables(TimeColumns, TimeValues, MaxTimeRows))
SpecTime == InitTime /\ [][Next]_vars

\* Satisfaction ratings: one column of ratings.
RatingColumns == <<"Service Satisfaction Rating">>
RatingValues == [n \in Range(RatingColumns) |-> {Num(3), Num(4), Num(5), NaN}]

InitRatings == Start(Tables(RatingColumns, RatingValues, MaxRatingRows))
SpecRatings == InitRatings /\ [][Next]_vars

(***************************************************************************)
(* Properties.                                                             *)
(***************************************************************************)
Detected == pc # "detect"
Finished == pc \in {"done", "aborted"}
PastTab1 == pc \notin {"detect", "tab1"}
PastTab2 == pc \notin {"detect", "tab1", "tab2"}

\* The columns of the table whose name equals an alias, ignoring case.
Matches(columns, alias) == {c \in Range(columns) : Lower(c) = Lower(alias)}

ResolvedAsClaimed(columns, candidates, col) ==
    LET hits == {i \in 1..Len(candidates) : Matches(columns, candidates[i]) # {}}
    IN  IF hits = {} THEN col = None
        ELSE col \in Matches(columns, candidates[CHOOSE i \in hits : \A j \in hits : i <= j])

\* C1: once the columns are detected, each role holds a table column that
\* matches, ignoring case, the earliest alias of the role that matches any
\* column, and holds None exactly when no alias of the role matches a column.
C1_DetectColumn ==
    Detected =>
        /\ ResolvedAsClaimed(df.columns, CategoryCandidates, category_col)
        /\ ResolvedAsClaimed(df.columns, SalesCandidates, sales_col)
        /\ ResolvedAsClaimed(df.columns, DateCandidates, date_col)
        /\ ResolvedAsClaimed(df.columns, SatisfactionCandidates, satisfaction_col)

\* A table with the columns "Product Category" and "CATEGORY": the role is
\* resolved to "CATEGORY", the match of the first alias.
C1_Witness ==
    /\ Detected
    /\ df.columns = <<"Product Category", "CATEGORY">>
    /\ category_col = "CATEGORY"

\* C2: at the end of a run each view shows the missing-columns error exactly
\* when one of its own roles is unresolved, and every view has been rendered
\* whatever the other views met; with no sales column tabs 1 and 2 show the
\* error and the ratings view still shows its result.
C2_ViewsIndependent ==
    Finished =>
        /\ tab1.notice = "error" <=> (category_col = None \/ sales_col = None)
        /\ tab2.notice = "error" <=> (date_col = None \/ sales_col = None)
        /\ tab3.notice = "error" <=> (satisfaction_col = None)
        /\ tab1 # NotRendered /\ tab2 # NotRendered /\ tab3 # NotRendered
        /\ (sales_col = None /\ satisfaction_col # None) =>
              (tab3.chart \/ tab3.notice = "info")

\* The sums a view is meant to show: per key, the sales of the rows whose
\* sales value is a number.
ValidSums(keys, vals) ==
    {<<g, Num(SumCells(vals, {i \in GroupRows(keys) : keys[i] = g /\ IsNumber(vals[i])}))>> :
        g \in GroupKeys(keys)}

ParsedDates(frame, dcol) ==
    [i \in 1..Len(frame.rows) |-> ToDatetime(Column(frame, dcol)[i])]

\* C3: a sales value that is not a number or is missing, or a date that does
\* not parse, only leaves its row out: the run never aborts, and the category
\* and daily sums are those of the remaining rows.
C3_RowFailuresOnlySkipRows ==
    /\ pc # "aborted"
    /\ (PastTab1 /\ category_col # None /\ sales_col # None) =>
          Range(category_sales) = ValidSums(Column(df, category_col), Column(df, sales_col))
    /\ (PastTab2 /\ date_col # None /\ sales_col # None) =>
          Range(daily_sales) = ValidSums(ParsedDates(df, date_col), Column(df, sales_col))

\* The rows the category view can use: a category and a numeric sales value.
UsableCategoryRows ==
    {i \in 1..Len(df.rows) :
        /\ ~IsNa(Column(df, category_col)[i])
        /\ IsNumber(Column(df, sales_col)[i])}

\* C4: no view shows both a chart and a notice, and the category view with its
\* columns resolved and no usable row shows the no-data notice only.
C4_NoDataNoticeOnly ==
    /\ \A view \in {tab1, tab2, tab3} : ~(view.chart /\ view.notice # "none")
    /\ (PastTab1 /\ category_col # None /\ sales_col # None /\ UsableCategoryRows = {}) =>
          tab1 = View(FALSE, FALSE, "info")

\* The sum of the sales of the rows of one category.
CategoryTotal(g) ==
    SumCells(Column(df, sales_col), {i \in 1..Len(df.rows) : Column(df, category_col)[i] = g})

NonIncreasing(series) ==
    \A i, j \in 1..Len(series) : i < j => series[i][2].a >= series[j][2].a

\* C5: with the category and sales columns resolved, the category result holds
\* one pair per distinct category, each total the sum of the category's sales,
\* in non-increasing order of total, and the top category has the largest total.
C5_CategoryTotals ==
    (PastTab1 /\ category_col # None /\ sales_col # None) =>
        /\ Range(category_sales) =
              {<<g, Num(CategoryTotal(g))>> : g \in GroupKeys(Column(df, category_col))}
        /\ Len(category_sales) = Cardinality(GroupKeys(Column(df, category_col)))
        /\ NonIncreasing(category_sales)
        /\ category_sales # <<>> =>
              /\ <<top_category, Num(top_value)>> \in Range(category_sales)
              /\ \A e \in Range(category_sales) : e[2].a <= top_value

\* The shares of all categories, over the total the top share was divided by,
\* add up to 100%.
SharesSumTo100 ==
    LET percent == [i \in 1..Len(category_sales) |->
                       <<category_sales[i][1], Num(category_sales[i][2].a * 100)>>]
    IN  SeriesSum(percent) = 100 * top_pct[2]

\* The reported share is the fraction num / den of a percentage.
ShareIs(num, den) == den # 0 /\ top_pct[2] # 0 /\ top_pct[1] * den = num * top_pct[2]

C7_DatesStrictlyAscending ==
    (PastTab2 /\ date_col # None /\ sales_col # None) =>
        \A i, j \in 1..Len(daily_sales) :
            i < j => Date(daily_sales[i][1]) < Date(daily_sales[j][1])

\* The sum of the sales of the rows whose date parses to the calendar day.
DayTotal(day) ==
    SumCells(Column(df, sales_col),
             {i \in 1..Len(df.rows) :
                 /\ ~IsNa(ParsedDates(df, date_col)[i])
                 /\ Date(ParsedDates(df, date_col)[i]) = day})

ParsedDays ==
    {Date(ParsedDates(df, date_col)[i]) :
        i \in {r \in 1..Len(df.rows) : ~IsNa(ParsedDates(df, date_col)[r])}}

\* C8: rows whose date does not parse count in no daily total, each daily
\* total is the sum of the sales of the rows of that calendar date, and the
\* peak date is a date with the largest daily total, reported with that total.
C8_DailyTotals ==
    (PastTab2 /\ date_col # None /\ sales_col # None) =>
        /\ {Date(e[1]) : e \in Range(daily_sales)} = ParsedDays
        /\ \A e \in Range(daily_sales) : e[2] = Num(DayTotal(Date(e[1])))
        /\ tab2.interpretation =>
              /\ max_value = DayTotal(Date(max_date))
              /\ \A day \in ParsedDays : DayTotal(day) <= max_value

\* The ratings of the table that are not missing, and how often each occurs.
RatingCells == {c \in Range(Column(df, satisfaction_col)) : ~IsNa(c)}
Occurrences(v) ==
    Cardinality({i \in 1..Len(df.rows) : Column(df, satisfaction_col)[i] = v})

\* C9: with the ratings column resolved, the ratings result holds each distinct
\* rating that is not missing once, with its number of occurrences, in
\* ascending order of the rating.
C9_RatingCounts ==
    (pc = "done" /\ satisfaction_col # None) =>
        /\ Range(rating_counts) = {<<v, Num(Occurrences(v))>> : v \in RatingCells}
        /\ Len(rating_counts) = Cardinality(RatingCells)
        /\ \A i, j \in 1..Len(rating_counts) :
              i < j => rating_counts[i][1].a < rating_counts[j][1].a

\* Ratings 5, 5, 3, 4, 5 give the counts 3: 1, 4: 1, 5: 3.
C9_Witness ==
    /\ pc = "done"
    /\ Column(df, satisfaction_col) = <<Num(5), Num(5), Num(3), Num(4), Num(5)>>
    /\ rating_counts = <<<<Num(3), Num(1)>>, <<Num(4), Num(1)>>, <<Num(5), Num(3)>>>>

\* C10: the most common rating has the highest number of occurrences, and
\* among the ratings that tie for it the smallest is reported, whatever the
\* order of the rows: it is a function of the ratings and their counts alone.
C10_MostCommonRating ==
    tab3.interpretation =>
        /\ most_common_rating \in RatingCells
        /\ \A v \in RatingCells : Occurrences(v) <= Occurrences(most_common_rating)
        /\ \A v \in RatingCells :
              Occurrences(v) = Occurrences(most_common_rating) => most_common_rating.a <= v.a

\* 5 comes first in the table and ties with 3: 3 is reported.
C10_Witness ==
    /\ tab3.interpretation
    /\ Column(df, satisfaction_col)[1] = Num(5)
    /\ Occurrences(Num(5)) = Occurrences(Num(3))
    /\ Occurrences(Num(4)) < Occurrences(Num(3))
    /\ most_common_rating = Num(3)

====
